---------------------------- MODULE Spec2Model ----------------------------
(***************************************************************************)
(* A model of the notebook                                                 *)
(*   python/samples/getting_started/05-memory-and-embeddings.ipynb         *)
(* The notebook is one sequential program: its code cells run top to       *)
(* bottom, every SDK coroutine is awaited where it is called, and the      *)
(* first exception that leaves a cell stops the run.                       *)
(*                                                                         *)
(* The state is the notebook's globals (selectedService, kernel,           *)
(* embedding_gen, records, github_files, the three collections), the       *)
(* position of the run (pc, phase), the calls in flight, the printed       *)
(* output of the running cell and a history of the calls made.             *)
(*                                                                         *)
(* The SDK (semantic_kernel), services.Service and ServiceSettings are not *)
(* part of the notebook; they are modelled from the notebook's narration   *)
(* and are marked as such where they are defined.                          *)
(***************************************************************************)
EXTENDS Integers, Sequences, FiniteSets, TLC

(***************************************************************************)
(* Bounds of the model.                                                    *)
(***************************************************************************)
\* Scores handed out by a search are drawn from 0..MaxScore.
MaxScore == 1
\* Records left in the Azure AI Search index by an earlier run.
MaxStale == 1
\* Calls of chat(user_input) a user makes after the chat is set up.
MaxTurns == 2

(***************************************************************************)
(* Strings that the code inspects character by character are tuples of    *)
(* one-character strings; str.lower() is modelled by what it does.  The    *)
(* characters of a string of this module are those up to U+00FF; the       *)
(* letters among them that str.lower() changes are A-Z and the accented    *)
(* capitals U+00C0..U+00DE (U+00D7, the multiplication sign, is not one),  *)
(* each mapped to the letter 32 code points on.                            *)
(***************************************************************************)
UpperLetters ==
    << "A","B","C","D","E","F","G","H","I","J","K","L","M",
       "N","O","P","Q","R","S","T","U","V","W","X","Y","Z",
       "À","Á","Â","Ã","Ä","Å","Æ","Ç","È","É",
       "Ê","Ë","Ì","Í","Î","Ï","Ð","Ñ","Ò","Ó",
       "Ô","Õ","Ö","Ø","Ù","Ú","Û","Ü","Ý","Þ" >>

LowerLetters ==
    << "a","b","c","d","e","f","g","h","i","j","k","l","m",
       "n","o","p","q","r","s","t","u","v","w","x","y","z",
       "à","á","â","ã","ä","å","æ","ç","è","é",
       "ê","ë","ì","í","î","ï","ð","ñ","ò","ó",
       "ô","õ","ö","ø","ù","ú","û","ü","ý","þ" >>

LowerChar(c) ==
    IF \E i \in DOMAIN UpperLetters : UpperLetters[i] = c
    THEN LowerLetters[CHOOSE i \in DOMAIN UpperLetters : UpperLetters[i] = c]
    ELSE c

lower(s) == [i \in 1..Len(s) |-> LowerChar(s[i])]

(***************************************************************************)
(* services.Service: the enumeration of the services the notebook names   *)
(* (OpenAI, AzureOpenAI, HuggingFace), each member's value its lower-case  *)
(* name.  Service(v) is the member whose value is v, and raises ValueError *)
(* when there is none.                                                     *)
(***************************************************************************)
ServiceValue ==
    [ OpenAI      |-> << "o","p","e","n","a","i" >>,
      AzureOpenAI |-> << "a","z","u","r","e","o","p","e","n","a","i" >>,
      HuggingFace |-> << "h","u","g","g","i","n","g","f","a","c","e" >> ]

ServiceMembers == DOMAIN ServiceValue

Service(v) ==
    IF \E m \in ServiceMembers : ServiceValue[m] = v
    THEN CHOOSE m \in ServiceMembers : ServiceValue[m] = v
    ELSE "ValueError"

(***************************************************************************)
(* ServiceSettings().global_llm_service: the GLOBAL_LLM_SERVICE setting of *)
(* the .env file, or None when the setting is not included.                *)
(***************************************************************************)
NoSetting == [set |-> FALSE, val |-> << >>]

Setting(v) == [set |-> TRUE, val |-> v]

Settings ==
    { NoSetting,
      Setting(<< "O","p","e","n","A","I" >>),
      Setting(<< "A","z","u","r","e","O","p","e","n","A","I" >>),
      Setting(<< "H","u","g","g","i","n","g","F","a","c","e" >>),
      Setting(<< "o","p","e","n","a","i" >>),
      Setting(<< "O","l","l","a","m","a" >>) }

(***************************************************************************)
(* Cell 1b95af24: the value assigned to selectedService, "ValueError" when *)
(* Service(...) raises.                                                    *)
(***************************************************************************)
\* The selection falling back to AzureOpenAI when the setting names no
\* member of Service.
SelectServiceFallback(setting) ==
    IF ~setting.set THEN "AzureOpenAI"
    ELSE IF Service(lower(setting.val)) = "ValueError" THEN "AzureOpenAI"
    ELSE Service(lower(setting.val))

\* The selection with the setting looked up as written, without .lower().
SelectServiceNoLower(setting) ==
    IF ~setting.set THEN "AzureOpenAI" ELSE Service(setting.val)

SelectService(setting) ==
    IF ~setting.set THEN "AzureOpenAI" ELSE Service(lower(setting.val))

(***************************************************************************)
(* Cell 8f8dcbc6: the services added to the kernel and the value bound to  *)
(* embedding_gen for a selected service.  The cell has a branch for        *)
(* AzureOpenAI and one for OpenAI and no else.                             *)
(***************************************************************************)
chat_service_id == "chat"

ConfiguredServices(selected) ==
    IF selected = "AzureOpenAI"
    THEN { [service_id |-> chat_service_id, type |-> "AzureChatCompletion"],
           [service_id |-> "embedding",     type |-> "AzureTextEmbedding"] }
    ELSE IF selected = "OpenAI"
    THEN { [service_id |-> chat_service_id, type |-> "OpenAIChatCompletion"],
           [service_id |-> "embedding",     type |-> "OpenAITextEmbedding"] }
    ELSE { }

ConfiguredEmbeddingGen(selected) ==
    IF selected = "AzureOpenAI" THEN "AzureTextEmbedding"
    ELSE IF selected = "OpenAI" THEN "OpenAITextEmbedding"
    ELSE "undefined"

(***************************************************************************)
(* The record models.  An embedding is None, a string or a list of floats. *)
(***************************************************************************)
None == [tag |-> "None"]

Str(s) == [tag |-> "str", str |-> s]

Vec(v) == [tag |-> "list", list |-> v]

\* SimpleModel.__post_init__
\* __post_init__ with "if not self.embedding" for "if self.embedding is None".
SimpleModel_post_init_falsy(self) ==
    IF self.embedding = None \/ self.embedding = Str("")
                             \/ self.embedding = Vec(<< >>)
    THEN [self EXCEPT !.embedding = Str(self.text)]
    ELSE self

SimpleModel_post_init(self) ==
    IF self.embedding = None
    THEN [self EXCEPT !.embedding = Str(self.text)]
    ELSE self

\* SimpleModel(text=..., id=..., embedding=...): the dataclass constructor
\* stores its arguments and then runs __post_init__.
SimpleModel(text, id, embedding) ==
    SimpleModel_post_init([text |-> text, id |-> id, embedding |-> embedding])

\* GitHubFile.__post_init__
\* __post_init__ joining url and text with nothing between them.
GitHubFile_post_init_no_space(self) ==
    IF self.embedding = None
    THEN [self EXCEPT !.embedding = Str(self.url \o self.text)]
    ELSE self

GitHubFile_post_init(self) ==
    IF self.embedding = None
    THEN [self EXCEPT !.embedding = Str(self.url \o " " \o self.text)]
    ELSE self

GitHubFile(url, text, key, embedding) ==
    GitHubFile_post_init(
        [url |-> url, text |-> text, key |-> key, embedding |-> embedding])

\* The key field of a record: id for SimpleModel, key for GitHubFile.
KeyOf(rec) == IF "id" \in DOMAIN rec THEN rec.id ELSE rec.key


(***************************************************************************)
(* uuid4(): the default_factory of the key fields.  The n-th identifier    *)
(* generated in a run is a value no earlier call returned; collisions of   *)
(* random 122-bit identifiers are not modelled.                            *)
(***************************************************************************)
uuid4(generated) == generated + 1

(***************************************************************************)
(* The statements of the notebook.  A statement is a local step, a print,  *)
(* an SDK call, or the async-for loop over a search's results.  A call is  *)
(* awaited (the statement after it runs when the call is back) or not (it  *)
(* runs at once); every call of the notebook is awaited.                   *)
(***************************************************************************)
Stmt(kind, cell, op, coll, arg, top, awaited) ==
    [kind |-> kind, cell |-> cell, op |-> op, coll |-> coll, arg |-> arg,
     top |-> top, awaited |-> awaited]

Local(cell, kind, arg) == Stmt(kind, cell, "", "", arg, 0, TRUE)

PrintStmt(cell, tag, arg) == Stmt("print", cell, tag, "", arg, 0, TRUE)

\* await coll.op(arg, top=top)
Await(cell, op, coll, arg, top) == Stmt("call", cell, op, coll, arg, top, TRUE)

\* async for result in results.results: <body>
ForResults(cell, body) == Stmt("for_results", cell, body, "", "", 0, TRUE)

(***************************************************************************)
(* search_memory_examples(collection, questions), cell 628c843e: the       *)
(* statements one call of the function runs, the for loop over the         *)
(* questions unrolled.                                                     *)
(***************************************************************************)
\* The function with the search left at the SDK's default of top=3.
RECURSIVE search_memory_examples_top3(_, _, _)
search_memory_examples_top3(cell, collection, questions) ==
    IF questions = << >> THEN << >>
    ELSE << PrintStmt(cell, "Question", Head(questions)),
            Await(cell, "search", collection, Head(questions), 3),
            ForResults(cell, "answer_score") >>
         \o search_memory_examples_top3(cell, collection, Tail(questions))

RECURSIVE search_memory_examples(_, _, _)
search_memory_examples(cell, collection, questions) ==
    IF questions = << >> THEN << >>
    ELSE << PrintStmt(cell, "Question", Head(questions)),
            Await(cell, "search", collection, Head(questions), 1),
            ForResults(cell, "answer_score") >>
         \o search_memory_examples(cell, collection, Tail(questions))

(***************************************************************************)
(* chat(user_input), cell e3875a34.                                        *)
(***************************************************************************)
chat(cell, user_input) ==
    << PrintStmt(cell, "User", user_input),
       Await(cell, "invoke", "", user_input, 0),
       PrintStmt(cell, "ChatBot", "") >>

(***************************************************************************)
(* The code cells, in notebook order.  Cells a77bdf89 (pip install) and    *)
(* d8a3db35 (sys.path) touch nothing the model has; cells 628c843e and     *)
(* fb8549b2 only define functions.                                         *)
(***************************************************************************)
Cell_1b95af24 ==
    << Local("1b95af24", "select", ""),
       PrintStmt("1b95af24", "Using service type", "") >>

Cell_8f8dcbc6 == << Local("8f8dcbc6", "configure", "") >>

Cell_da74fa33 == << Local("da74fa33", "class", "SimpleModel") >>

Cell_d096504c == << Local("d096504c", "make_records", "") >>

\* The cell with ensure_collection_exists started as a task and not awaited.
Cell_5338d3ac_unawaited ==
    << Local("5338d3ac", "get_collection", "collection"),
       Stmt("call", "5338d3ac", "ensure_collection_exists", "collection", "", 0, FALSE),
       Await("5338d3ac", "upsert", "collection", "records", 0) >>

\* The cell with upsert called before ensure_collection_exists.
Cell_5338d3ac_upsert_first ==
    << Local("5338d3ac", "get_collection", "collection"),
       Await("5338d3ac", "upsert", "collection", "records", 0),
       Await("5338d3ac", "ensure_collection_exists", "collection", "", 0) >>

Cell_5338d3ac ==
    << Local("5338d3ac", "get_collection", "collection"),
       Await("5338d3ac", "ensure_collection_exists", "collection", "", 0),
       Await("5338d3ac", "upsert", "collection", "records", 0) >>

Questions_24764c48 ==
    << "What is my budget for 2024?",
       "What are my savings from 2023?",
       "What are my investments?" >>

Cell_24764c48 ==
    search_memory_examples("24764c48", "collection", Questions_24764c48)

Cell_9c1fdace == << Local("9c1fdace", "add_function", "memory.recall") >>

Cell_e3875a34 ==
    << PrintStmt("e3875a34", "text", "Setting up a chat (with memory!)"),
       Local("e3875a34", "setup_chat", "chat.chat_with_memory"),
       PrintStmt("e3875a34", "text", "Begin chatting (type 'exit' to exit):\n"),
       PrintStmt("e3875a34", "text",
                 "Welcome to the chat bot!    \n  Type 'exit' to exit.    \n  Try asking a question about your finances (i.e. \"talk to me about my finances\").") >>

Cell_6b55f64f == chat("6b55f64f", "What is my budget for 2024?")

Cell_243f9eb2 == chat("243f9eb2", "talk to me about my finances")

Cell_170e7142 == << Local("170e7142", "class", "GitHubFile") >>

Cell_0d971eeb ==
    << Local("0d971eeb", "make_github_files", ""),
       Local("0d971eeb", "get_collection", "github_memory"),
       Await("0d971eeb", "ensure_collection_exists", "github_memory", "", 0),
       Await("0d971eeb", "upsert", "github_memory", "github_files", 0) >>

ask == "I love Jupyter notebooks, how should I get started?"

\* The cell with the search asking for two results.
Cell_143911c3_top2 ==
    << PrintStmt("143911c3", "Query", ask),
       Await("143911c3", "search", "github_memory", ask, 2),
       ForResults("143911c3", "result_block") >>

Cell_143911c3 ==
    << PrintStmt("143911c3", "Query", ask),
       Await("143911c3", "search", "github_memory", ask, 5),
       ForResults("143911c3", "result_block") >>

\* The cell without its ensure_collection_deleted.
Cell_77fdfa86_no_delete ==
    << Local("77fdfa86", "get_collection", "azs_memory"),
       Await("77fdfa86", "ensure_collection_exists", "azs_memory", "", 0),
       Await("77fdfa86", "upsert", "azs_memory", "github_files", 0) >>

\* The cell with github_files built anew before the upsert.
Cell_77fdfa86_rebuilt ==
    << Local("77fdfa86", "get_collection", "azs_memory"),
       Await("77fdfa86", "ensure_collection_deleted", "azs_memory", "", 0),
       Await("77fdfa86", "ensure_collection_exists", "azs_memory", "", 0),
       Local("77fdfa86", "make_github_files", ""),
       Await("77fdfa86", "upsert", "azs_memory", "github_files", 0) >>

Cell_77fdfa86 ==
    << Local("77fdfa86", "get_collection", "azs_memory"),
       Await("77fdfa86", "ensure_collection_deleted", "azs_memory", "", 0),
       Await("77fdfa86", "ensure_collection_exists", "azs_memory", "", 0),
       Await("77fdfa86", "upsert", "azs_memory", "github_files", 0) >>

Questions_1a09d0ca ==
    << "What is Semantic Kernel?",
       "How do I get started on it with notebooks?",
       "Where can I find more info on prompts?" >>

Cell_1a09d0ca ==
    search_memory_examples("1a09d0ca", "azs_memory", Questions_1a09d0ca)

\* The cleanup followed by an ensure_collection_exists.
Cell_82cd429e_recreates ==
    << Await("82cd429e", "ensure_collection_deleted", "azs_memory", "", 0),
       Await("82cd429e", "ensure_collection_exists", "azs_memory", "", 0) >>

Cell_82cd429e ==
    << Await("82cd429e", "ensure_collection_deleted", "azs_memory", "", 0) >>

\* The notebook, run from its first code cell to its last.
Program ==
    Cell_1b95af24 \o Cell_8f8dcbc6 \o Cell_da74fa33 \o Cell_d096504c
    \o Cell_5338d3ac \o Cell_24764c48 \o Cell_9c1fdace \o Cell_e3875a34
    \o Cell_6b55f64f \o Cell_243f9eb2 \o Cell_170e7142 \o Cell_0d971eeb
    \o Cell_143911c3 \o Cell_77fdfa86 \o Cell_1a09d0ca \o Cell_82cd429e

Collections == {"collection", "github_memory", "azs_memory"}

(***************************************************************************)
(* The arguments of the records the notebook builds.                       *)
(***************************************************************************)
RecordTexts ==
    << "Your budget for 2024 is $100,000",
       "Your savings from 2023 are $50,000",
       "Your investments are $80,000" >>

GitHubFileArgs ==
    << [url  |-> "https://github.com/microsoft/semantic-kernel/blob/main/README.md",
        text |-> "README: Installation, getting started, and how to contribute"],
       [url  |-> "https://github.com/microsoft/semantic-kernel/blob/main/dotnet/notebooks/02-running-prompts-from-file.ipynb",
        text |-> "Jupyter notebook describing how to pass prompts from a file to a semantic plugin or function"],
       [url  |-> "https://github.com/microsoft/semantic-kernel/blob/main/dotnet/notebooks/00-getting-started.ipynb",
        text |-> "Jupyter notebook describing how to get started with Semantic Kernel"] >>

\* The records with id declared field(default=str(uuid4())): one identifier,
\* generated when the class is defined, is the id of every record.
MakeRecordsSharedDefault(generated) ==
    [i \in 1..Len(RecordTexts) |->
        SimpleModel(RecordTexts[i], uuid4(generated), None)]

\* records = [SimpleModel(text=...), ...], cell d096504c: each record takes
\* the next generated identifier as its id.
MakeRecords(generated) ==
    [i \in 1..Len(RecordTexts) |->
        SimpleModel(RecordTexts[i], uuid4(generated + i - 1), None)]

\* github_files.append(GitHubFile(url=..., text=...)), cell 0d971eeb.
MakeGitHubFiles(generated) ==
    [i \in 1..Len(GitHubFileArgs) |->
        GitHubFile(GitHubFileArgs[i].url, GitHubFileArgs[i].text,
                   uuid4(generated + i - 1), None)]

(***************************************************************************)
(* The SDK operations on a collection, as the notebook relies on them.  A  *)
(* collection is [exists, recs]: whether it exists and the records in it.  *)
(***************************************************************************)
AbsentCollection == [exists |-> FALSE, recs |-> { }]

EmptyCollection == [exists |-> TRUE, recs |-> { }]

\* ensure_collection_exists(): creates the collection unless it exists.
ensure_collection_exists(c) == IF c.exists THEN c ELSE EmptyCollection

\* ensure_collection_deleted(): deletes the collection and all it holds.
ensure_collection_deleted(c) == AbsentCollection

\* upsert(list): each record replaces the stored record of the same key, or
\* is added; the call returns the keys of the records in the list's order.
upsert(c, list) ==
    LET keys == { KeyOf(list[i]) : i \in 1..Len(list) }
        last(k) == list[CHOOSE i \in 1..Len(list) :
                          /\ KeyOf(list[i]) = k
                          /\ \A j \in (i+1)..Len(list) : KeyOf(list[j]) # k]
    IN  [c EXCEPT !.recs = { r \in @ : KeyOf(r) \notin keys }
                           \cup { last(k) : k \in keys }]

upsert_keys(list) == [i \in 1..Len(list) |-> KeyOf(list[i])]

Min(a, b) == IF a < b THEN a ELSE b

\* The distance_function of the vector fields of SimpleModel and GitHubFile:
\* VectorStoreField("vector", ...) names none, so each store uses its default.
distance_function_similarity == "cosine_similarity"

distance_function == "default"

\* Whether results are ranked by ascending score (a distance, the in-memory
\* default) or by descending score (a similarity, the Azure AI Search
\* default).
AscendingScore(coll) ==
    CASE distance_function = "default" -> coll # "azs_memory"
      [] distance_function = "cosine_distance" -> TRUE
      [] OTHER -> FALSE

Before(asc, a, b) == IF asc THEN a <= b ELSE a >= b

\* search(query, top=top): the top best-scored records, best first, each
\* with its score.  The scores come from the embedding model and are any
\* values in 0..MaxScore.
search(recs, top, asc) ==
    LET k == Min(top, Cardinality(recs))
    IN  { [i \in 1..k |-> [record |-> r[i], score |-> score[r[i]]]] :
            <<r, score>> \in
              { x \in [1..k -> recs] \X [recs -> 0..MaxScore] :
                  /\ \A i, j \in 1..k : i # j => x[1][i] # x[1][j]
                  /\ \A i, j \in 1..k :
                        i < j => Before(asc, x[2][x[1][i]], x[2][x[1][j]])
                  /\ \A i \in 1..k : \A y \in recs :
                        (\A j \in 1..k : x[1][j] # y)
                            => Before(asc, x[2][x[1][i]], x[2][y]) } }

\* The scores of all the records of a collection that a result list may
\* come from: each result has its record's score, and no record left out
\* ranks before a result.
ScoresBehind(res, recs, asc) ==
    { sc \in [recs -> 0..MaxScore] :
        /\ \A i \in 1..Len(res) : sc[res[i].record] = res[i].score
        /\ \A y \in recs :
              (\A i \in 1..Len(res) : res[i].record # y)
                  => \A i \in 1..Len(res) : Before(asc, res[i].score, sc[y]) }

\* The answers kernel.invoke may return: whatever the chat model says.
Answers == {"answer A", "answer B"}

(***************************************************************************)
(* What happens to an exception raised by the call of a statement:         *)
(* "propagate" (no handler: it leaves the function and the cell),          *)
(* "swallow" (a handler that goes on) or "retry" (a handler that calls     *)
(* again).  No call of the notebook stands in a try statement.             *)
(***************************************************************************)
\* Handlers around search (go on) and upsert (call again).
OnRaiseHandled(stmt) ==
    CASE stmt.op = "search" -> "swallow"
      [] stmt.op = "upsert" -> "retry"
      [] OTHER -> "propagate"

OnRaise(stmt) == "propagate"

(***************************************************************************)
(* Records an earlier run left in the Azure AI Search index: the same      *)
(* files under the keys that run generated.                                *)
(***************************************************************************)
StaleKey(i) == 100 + i

StaleRecords ==
    { GitHubFile(GitHubFileArgs[1].url, GitHubFileArgs[1].text, StaleKey(i), None) :
        i \in 1..MaxStale }

AzureInitialStates ==
    { AbsentCollection, EmptyCollection }
    \cup { [exists |-> TRUE, recs |-> s] : s \in (SUBSET StaleRecords) \ { { } } }

(***************************************************************************)
(* State.                                                                  *)
(***************************************************************************)
VARIABLES
    global_llm_service,  \* service_settings.global_llm_service
    selectedService,     \* "unset" or a member of Service
    kernel_services,     \* the services added to the kernel
    kernel_functions,    \* the functions added to the kernel
    embedding_gen,       \* "undefined" or the embedding service bound to it
    classes,             \* the record classes defined so far
    generated,           \* how many identifiers uuid4 has generated
    records,             \* the list records
    github_files,        \* the list github_files
    store,               \* collection -> [exists, recs]
    azs_before,          \* the Azure index as the run found it
    upsert_result,       \* collection -> keys returned by its last upsert
    results,             \* the result stream of the last search, unread part
    answer,              \* the value of the last kernel.invoke
    scores,              \* record -> score in the search being read
    requests,            \* the requests kernel.invoke has sent to the model
    user_input,          \* what the user typed for chat(user_input)
    output,              \* the lines printed by the running cell
    pc,                  \* index in Program of the statement to run
    phase,               \* "ready" | "waiting" (the awaited call is out)
    outstanding,         \* statements whose call was issued and is not back
    error,               \* "none" or the exception that stopped the run
    failedAt,            \* the statement that raised it, 0 if none
    history,             \* the statements started and the calls made
    ctor_args,           \* the arguments of a record constructor call
    obj                  \* << >> or the one record that call constructed

vars ==
    << global_llm_service, selectedService, kernel_services, kernel_functions,
       embedding_gen, classes, generated, records, github_files, store,
       azs_before, upsert_result, results, answer, scores, requests,
       user_input, output, pc, phase, outstanding, error, failedAt, history,
       ctor_args, obj >>

envVars == << global_llm_service, azs_before, user_input >>

kernelVars ==
    << selectedService, kernel_services, kernel_functions, embedding_gen,
       classes >>

dataVars == << generated, records, github_files >>

sdkVars == << store, upsert_result, results, answer, scores, requests >>

ctorVars == << ctor_args, obj >>

NoArgs == [text |-> "", id |-> [given |-> FALSE, val |-> 0], embedding |-> None]

InitNotebook ==
    /\ selectedService = "unset"
    /\ kernel_services = { }
    /\ kernel_functions = { }
    /\ embedding_gen = "undefined"
    /\ classes = { }
    /\ generated = 0
    /\ records = << >>
    /\ github_files = << >>
    /\ upsert_result = [c \in Collections |-> << >>]
    /\ results = << >>
    /\ answer = ""
    /\ scores = << >>
    /\ requests = << >>
    /\ output = << >>
    /\ pc = 1
    /\ phase = "ready"
    /\ outstanding = { }
    /\ error = "none"
    /\ failedAt = 0
    /\ history = << >>

Init ==
    /\ global_llm_service \in Settings
    /\ user_input = ""
    /\ azs_before \in AzureInitialStates
    /\ store = [c \in Collections |->
                  IF c = "azs_memory" THEN azs_before ELSE AbsentCollection]
    /\ InitNotebook
    /\ ctor_args = NoArgs
    /\ obj = << >>

(***************************************************************************)
(* Helpers of the actions.                                                 *)
(***************************************************************************)
Finished == pc > Len(Program)

Running == error = "none" /\ ~Finished

Cur == Program[pc]

At(kind) == Running /\ phase = "ready" /\ Cur.kind = kind

FirstInCell(i) == i = 1 \/ Program[i-1].cell # Program[i].cell

\* The output area of a cell is empty when its first statement starts.
CellOutput == IF FirstInCell(pc) THEN << >> ELSE output

Line(tag, text, num) == [tag |-> tag, text |-> text, num |-> num]

Event(ev, i) == [ev |-> ev, stmt |-> i]

Started == Append(history, Event("exec", pc))

\* An exception leaves the cell: the run stops at the statement.
Raise(exc) ==
    /\ error' = exc
    /\ failedAt' = pc
    /\ UNCHANGED << pc, phase >>

Next1 ==
    /\ pc' = pc + 1
    /\ phase' = "ready"
    /\ UNCHANGED << error, failedAt >>

(***************************************************************************)
(* The steps of the notebook.                                              *)
(***************************************************************************)
\* Cell 1b95af24: selectedService = ...
SelectServiceStep ==
    /\ At("select")
    /\ history' = Started
    /\ output' = CellOutput
    /\ LET s == SelectService(global_llm_service)
       IN  IF s = "ValueError"
           THEN Raise("ValueError") /\ UNCHANGED selectedService
           ELSE selectedService' = s /\ Next1
    /\ UNCHANGED << kernel_services, kernel_functions, embedding_gen, classes >>
    /\ UNCHANGED << envVars, dataVars, sdkVars, outstanding, ctorVars >>

\* print(...)
PrintStep ==
    /\ At("print")
    /\ history' = Started
    /\ LET text == CASE Cur.op = "Using service type" -> selectedService
                     [] Cur.op = "ChatBot" -> answer
                     [] OTHER -> Cur.arg
       IN  output' = Append(CellOutput, Line(Cur.op, text, 0))
    /\ Next1
    /\ UNCHANGED << envVars, kernelVars, dataVars, sdkVars, outstanding, ctorVars >>

\* Cell 8f8dcbc6: kernel = Kernel() and the if/elif on selectedService.
ConfigureKernel ==
    /\ At("configure")
    /\ history' = Started
    /\ output' = CellOutput
    /\ kernel_services' = ConfiguredServices(selectedService)
    /\ embedding_gen' = ConfiguredEmbeddingGen(selectedService)
    /\ Next1
    /\ UNCHANGED << selectedService, kernel_functions, classes >>
    /\ UNCHANGED << envVars, dataVars, sdkVars, outstanding, ctorVars >>

\* Cells da74fa33 and 170e7142: the class body evaluates embedding_gen in
\* the annotation of the embedding field, a NameError when it is not bound.
DefineClass ==
    /\ At("class")
    /\ history' = Started
    /\ output' = CellOutput
    /\ IF embedding_gen = "undefined"
       THEN Raise("NameError") /\ UNCHANGED classes
       ELSE classes' = classes \cup {Cur.arg} /\ Next1
    /\ UNCHANGED << selectedService, kernel_services, kernel_functions, embedding_gen >>
    /\ UNCHANGED << envVars, dataVars, sdkVars, outstanding, ctorVars >>

\* Cell d096504c: records = [SimpleModel(...), SimpleModel(...), SimpleModel(...)]
MakeRecordsStep ==
    /\ At("make_records")
    /\ history' = Started
    /\ output' = CellOutput
    /\ IF "SimpleModel" \notin classes
       THEN Raise("NameError") /\ UNCHANGED << generated, records >>
       ELSE /\ records' = MakeRecords(generated)
            /\ generated' = generated + Len(RecordTexts)
            /\ Next1
    /\ UNCHANGED << github_files, envVars, kernelVars, sdkVars, outstanding, ctorVars >>

\* Cell 0d971eeb: github_files = [] and the three appends.
MakeGitHubFilesStep ==
    /\ At("make_github_files")
    /\ history' = Started
    /\ output' = CellOutput
    /\ IF "GitHubFile" \notin classes
       THEN Raise("NameError") /\ UNCHANGED << generated, github_files >>
       ELSE /\ github_files' = MakeGitHubFiles(generated)
            /\ generated' = generated + Len(GitHubFileArgs)
            /\ Next1
    /\ UNCHANGED << records, envVars, kernelVars, sdkVars, outstanding, ctorVars >>

\* in_memory_store.get_collection(record_type=...) and
\* AzureAISearchCollection(record_type=...): a collection object; the
\* collection itself is not created or changed.
GetCollection ==
    /\ At("get_collection")
    /\ history' = Started
    /\ output' = CellOutput
    /\ Next1
    /\ UNCHANGED << envVars, kernelVars, dataVars, sdkVars, outstanding, ctorVars >>

\* Cell 9c1fdace: kernel.add_function(plugin_name="memory", function=recall)
AddFunction ==
    /\ At("add_function")
    /\ history' = Started
    /\ output' = CellOutput
    /\ kernel_functions' = kernel_functions \cup {Cur.arg}
    /\ Next1
    /\ UNCHANGED << selectedService, kernel_services, embedding_gen, classes >>
    /\ UNCHANGED << envVars, dataVars, sdkVars, outstanding, ctorVars >>

\* Cell e3875a34: chat_func = await setup_chat_with_memory(kernel, "chat");
\* kernel.get_service(service_id) raises when the kernel has no such service.
SetupChat ==
    /\ At("setup_chat")
    /\ history' = Started
    /\ output' = CellOutput
    /\ IF \E s \in kernel_services : s.service_id = chat_service_id
       THEN kernel_functions' = kernel_functions \cup {Cur.arg} /\ Next1
       ELSE Raise("KernelServiceNotFoundError") /\ UNCHANGED kernel_functions
    /\ UNCHANGED << selectedService, kernel_services, embedding_gen, classes >>
    /\ UNCHANGED << envVars, dataVars, sdkVars, outstanding, ctorVars >>

(***************************************************************************)
(* SDK calls: issued, then returned or raised by the service.              *)
(***************************************************************************)
ArgList(stmt) == IF stmt.arg = "records" THEN records ELSE github_files

\* The call of the statement at pc is started; an awaited call suspends the
\* notebook until it is back.
IssueCall ==
    /\ At("call")
    /\ history' = Append(Started, Event("issue", pc))
    /\ output' = CellOutput
    /\ outstanding' = outstanding \cup {pc}
    /\ IF Cur.awaited
       THEN phase' = "waiting" /\ UNCHANGED << pc, error, failedAt >>
       ELSE Next1
    /\ UNCHANGED << envVars, kernelVars, dataVars, sdkVars, ctorVars >>

\* upsert and search need the collection; kernel.invoke needs the functions
\* of the prompt.
CanSucceed(stmt) ==
    CASE stmt.op \in {"upsert", "search"} -> store[stmt.coll].exists
      [] stmt.op = "invoke" ->
            {"memory.recall", "chat.chat_with_memory"} \subseteq kernel_functions
      [] OTHER -> TRUE

Effect(stmt) ==
    CASE stmt.op = "ensure_collection_exists" ->
            /\ store' = [store EXCEPT ![stmt.coll] = ensure_collection_exists(@)]
            /\ UNCHANGED << upsert_result, results, answer, scores, requests >>
      [] stmt.op = "ensure_collection_deleted" ->
            /\ store' = [store EXCEPT ![stmt.coll] = ensure_collection_deleted(@)]
            /\ UNCHANGED << upsert_result, results, answer, scores, requests >>
      [] stmt.op = "upsert" ->
            /\ store' = [store EXCEPT ![stmt.coll] = upsert(@, ArgList(stmt))]
            /\ upsert_result' =
                  [upsert_result EXCEPT ![stmt.coll] = upsert_keys(ArgList(stmt))]
            /\ UNCHANGED << results, answer, scores, requests >>
      [] stmt.op = "search" ->
            /\ results' \in search(store[stmt.coll].recs, stmt.top,
                                   AscendingScore(stmt.coll))
            /\ scores' \in ScoresBehind(results', store[stmt.coll].recs,
                                         AscendingScore(stmt.coll))
            /\ UNCHANGED << store, upsert_result, answer, requests >>
      [] stmt.op = "invoke" ->
            /\ answer' \in Answers
            /\ requests' = Append(requests, stmt.arg)
            /\ UNCHANGED << store, upsert_result, results, scores >>

ReturnCall ==
    \E i \in outstanding :
        /\ error = "none"
        /\ CanSucceed(Program[i])
        /\ Effect(Program[i])
        /\ outstanding' = outstanding \ {i}
        /\ history' = Append(history, Event("return", i))
        /\ IF Program[i].awaited
           THEN Next1
           ELSE UNCHANGED << pc, phase, error, failedAt >>
        /\ UNCHANGED << envVars, kernelVars, dataVars, output, ctorVars >>

\* Any call may fail: credentials, the network, the service.
RaiseCall ==
    \E i \in outstanding :
        /\ error = "none"
        /\ outstanding' = outstanding \ {i}
        /\ history' = Append(history, Event("raise", i))
        /\ IF ~Program[i].awaited
           THEN UNCHANGED << pc, phase, error, failedAt >>
           ELSE CASE OnRaise(Program[i]) = "propagate" -> Raise("SDKError")
                  [] OnRaise(Program[i]) = "swallow" -> Next1
                  [] OnRaise(Program[i]) = "retry" ->
                        phase' = "ready" /\ UNCHANGED << pc, error, failedAt >>
        /\ UNCHANGED << envVars, kernelVars, dataVars, sdkVars, output, ctorVars >>

(***************************************************************************)
(* async for result in results.results: one pass of the body per result.   *)
(***************************************************************************)
Body(kind, result) ==
    IF kind = "answer_score"
    THEN << Line("Answer", result.record.text, 0),
            Line("Score", "", result.score) >>
    ELSE << Line("Result", "", result.record.key),
            Line("URL", result.record.url, 0),
            Line("Text", result.record.text, 0),
            Line("Relevance", "", result.score),
            Line("", "", 0) >>

NextResult ==
    /\ At("for_results")
    /\ results # << >>
    /\ output' = CellOutput \o Body(Cur.op, Head(results))
    /\ results' = Tail(results)
    /\ history' = Append(history, Event("result", pc))
    /\ UNCHANGED << store, upsert_result, answer, scores, requests >>
    /\ UNCHANGED << pc, phase, error, failedAt >>
    /\ UNCHANGED << envVars, kernelVars, dataVars, outstanding, ctorVars >>

EndResults ==
    /\ At("for_results")
    /\ results = << >>
    /\ output' = CellOutput
    /\ history' = Append(history, Event("end_results", pc))
    /\ scores' = << >>
    /\ Next1
    /\ UNCHANGED << store, upsert_result, results, answer, requests >>
    /\ UNCHANGED << envVars, kernelVars, dataVars, outstanding, ctorVars >>

Next ==
    \/ SelectServiceStep
    \/ PrintStep
    \/ ConfigureKernel
    \/ DefineClass
    \/ MakeRecordsStep
    \/ MakeGitHubFilesStep
    \/ GetCollection
    \/ AddFunction
    \/ SetupChat
    \/ IssueCall
    \/ ReturnCall
    \/ RaiseCall
    \/ NextResult
    \/ EndResults

Spec == Init /\ [][Next]_vars

(***************************************************************************)
(* The record constructors as functions of their arguments: a second       *)
(* specification that calls SimpleModel(...) or GitHubFile(...) once with   *)
(* arguments drawn from small sets, the notebook itself not running.       *)
(***************************************************************************)
CtorTexts ==
    { "", "Your budget for 2024 is $100,000", "Your investments are $80,000",
      "text" }

CtorIds ==
    { [given |-> FALSE, val |-> 0], [given |-> TRUE, val |-> 7],
      [given |-> TRUE, val |-> 8] }

CtorEmbeddings ==
    { None, Str(""), Str("text"), Vec(<< >>), Vec(<< 1, 2 >>) }

CtorArgs == [text : CtorTexts, id : CtorIds, embedding : CtorEmbeddings]

CtorUrls == { "", "https://github.com/microsoft/semantic-kernel" }

GitHubFileCtorArgs ==
    [url : CtorUrls, text : CtorTexts, key : CtorIds,
     embedding : CtorEmbeddings]

InitModels ==
    /\ global_llm_service = NoSetting
    /\ user_input = ""
    /\ azs_before = AbsentCollection
    /\ store = [c \in Collections |-> AbsentCollection]
    /\ InitNotebook
    /\ ctor_args \in CtorArgs \cup GitHubFileCtorArgs
    /\ obj = << >>

\* obj = SimpleModel(text=..., id=..., embedding=...), the id left to its
\* default_factory when it is not given.
ConstructSimpleModel ==
    /\ obj = << >>
    /\ ctor_args \in CtorArgs
    /\ obj' = << SimpleModel(ctor_args.text,
                             IF ctor_args.id.given THEN ctor_args.id.val
                                                   ELSE uuid4(generated),
                             ctor_args.embedding) >>
    /\ generated' = IF ctor_args.id.given THEN generated ELSE generated + 1
    /\ UNCHANGED << records, github_files, ctor_args >>
    /\ UNCHANGED << envVars, kernelVars, sdkVars, output, pc, phase,
                    outstanding, error, failedAt, history >>

\* obj = GitHubFile(url=..., text=..., key=..., embedding=...), the key left
\* to its default_factory when it is not given.
ConstructGitHubFile ==
    /\ obj = << >>
    /\ ctor_args \in GitHubFileCtorArgs
    /\ obj' = << GitHubFile(ctor_args.url, ctor_args.text,
                            IF ctor_args.key.given THEN ctor_args.key.val
                                                   ELSE uuid4(generated),
                            ctor_args.embedding) >>
    /\ generated' = IF ctor_args.key.given THEN generated ELSE generated + 1
    /\ UNCHANGED << records, github_files, ctor_args >>
    /\ UNCHANGED << envVars, kernelVars, sdkVars, output, pc, phase,
                    outstanding, error, failedAt, history >>

NextModels ==
    \/ ConstructSimpleModel
    \/ ConstructGitHubFile

SpecModels == InitModels /\ [][NextModels]_vars

(***************************************************************************)
(* Reading the history.                                                    *)
(***************************************************************************)
Events == 1..Len(history)

IsCall(j, ev, op, coll) ==
    /\ history[j].ev = ev
    /\ Program[history[j].stmt].op = op
    /\ Program[history[j].stmt].coll = coll

Returned(op, coll) == \E j \in Events : IsCall(j, "return", op, coll)

Issued(op, coll) == \E j \in Events : IsCall(j, "issue", op, coll)

\* The cell of the statement that ran last: the cell output belongs to.
OutputCell ==
    IF history = << >> THEN "" ELSE Program[history[Len(history)].stmt].cell

Executed(kind) ==
    \E j \in Events : history[j].ev = "exec" /\ Program[history[j].stmt].kind = kind

Range(seq) == { seq[i] : i \in 1..Len(seq) }

(***************************************************************************)
(* Properties.                                                             *)
(***************************************************************************)

\* C1: at every point of a run at most one call to an external service is
\* outstanding, and the notebook starts a statement (and so issues a call)
\* only when no earlier call is still out.
C1_OneCallOutstanding ==
    /\ Cardinality(outstanding) <= 1
    /\ phase = "ready" => outstanding = { }
    /\ (phase = "waiting" /\ error = "none") => outstanding = {pc}

\* A search of the Azure collection is out, after earlier calls came back.
C1_Witness ==
    /\ outstanding = {pc}
    /\ Cur.op = "search"
    /\ Cur.coll = "azs_memory"
    /\ Returned("upsert", "azs_memory")

\* C2: on each of the three collections, upsert is issued only after
\* ensure_collection_exists has returned, and a search is issued only
\* after upsert has returned.
C2_ExistsUpsertSearch ==
    \A j \in Events :
        history[j].ev = "issue" =>
            LET call == Program[history[j].stmt]
            IN  /\ call.op = "upsert" =>
                      \E i \in 1..(j-1) :
                          IsCall(i, "return", "ensure_collection_exists", call.coll)
                /\ call.op = "search" =>
                      \E i \in 1..(j-1) : IsCall(i, "return", "upsert", call.coll)

\* All three collections have been created, filled and searched.
C2_Witness == \A c \in Collections : Returned("search", c)

\* C3: when an SDK call raises, the exception stops the run at that
\* statement: it is the error of the run, nothing runs after it, no later
\* statement has run, and the call was issued once.
C3_RaisePropagates ==
    \A j \in Events :
        history[j].ev = "raise" =>
            /\ j = Len(history)
            /\ error = "SDKError"
            /\ failedAt = history[j].stmt
            /\ pc = failedAt
            /\ outstanding = { }
            /\ \A k \in Events : history[k].stmt <= failedAt
            /\ Cardinality({ k \in Events :
                   history[k].ev = "issue" /\ history[k].stmt = failedAt }) = 1

\* The second search of search_memory_examples on the Azure collection
\* raised, after the first question was answered.
C3_Witness ==
    /\ error = "SDKError"
    /\ Program[failedAt].op = "search"
    /\ Program[failedAt].cell = "1a09d0ca"
    /\ Len(output) = 4

\* The names of the members of Service, as the .env file spells them.
ServiceName ==
    [ OpenAI      |-> << "O","p","e","n","A","I" >>,
      AzureOpenAI |-> << "A","z","u","r","e","O","p","e","n","A","I" >>,
      HuggingFace |-> << "H","u","g","g","i","n","g","F","a","c","e" >> ]

\* C4: without GLOBAL_LLM_SERVICE the selected service is AzureOpenAI; with
\* it set to the name of a member of Service, the selection does not raise
\* and the selected service is that member.
C4_SelectedService ==
    /\ (~global_llm_service.set /\ Executed("select"))
          => selectedService = "AzureOpenAI"
    /\ \A m \in ServiceMembers :
          (global_llm_service.set /\ global_llm_service.val = ServiceName[m]
              /\ Executed("select"))
          => selectedService = m /\ error # "ValueError"

\* The setting names HuggingFace and the selection has run.
C4_Witness ==
    /\ global_llm_service = Setting(ServiceName["HuggingFace"])
    /\ selectedService = "HuggingFace"

\* C5: for every service the notebook names as available, after the
\* configuration cell the kernel holds a chat service with id 'chat' and an
\* embedding service, embedding_gen is defined, and the class definitions
\* that use it do not fail.
C5_EveryServiceConfigured ==
    (selectedService \in ServiceMembers /\ Executed("configure")) =>
        /\ \E s \in kernel_services : s.service_id = chat_service_id
        /\ \E s \in kernel_services : s.service_id = "embedding"
        /\ embedding_gen # "undefined"
        /\ error # "NameError"

\* The cleanup cell 82cd429e has started.
CleanupStarted ==
    \E j \in Events : Program[history[j].stmt].cell = "82cd429e"

\* C6: once the setup cell's ensure_collection_deleted,
\* ensure_collection_exists and upsert(github_files) have returned, and
\* until the cleanup, the Azure AI Search collection exists and holds
\* exactly the records of github_files, whatever it held before the run.
C6_AzureCleanState ==
    (Returned("upsert", "azs_memory") /\ ~CleanupStarted) =>
        /\ store["azs_memory"].exists
        /\ store["azs_memory"].recs = Range(github_files)

\* The setup cell has completed on an index that held records of an
\* earlier run.
C6_Witness ==
    /\ Returned("ensure_collection_deleted", "azs_memory")
    /\ Returned("upsert", "azs_memory")
    /\ ~CleanupStarted
    /\ azs_before.recs # { }
    /\ Cardinality(store["azs_memory"].recs) = Len(GitHubFileArgs)

\* C7: after a run in which every cell completed, the Azure AI Search
\* collection does not exist, and the last call made on it is an
\* ensure_collection_deleted that followed every search of it.
C7_AzureDeletedAtEnd ==
    (Finished /\ error = "none") =>
        /\ ~store["azs_memory"].exists
        /\ \E j \in Events :
              /\ IsCall(j, "return", "ensure_collection_deleted", "azs_memory")
              /\ \A k \in Events :
                    (Program[history[k].stmt].coll = "azs_memory" /\ k # j)
                        => k < j

\* A run completed on an index that existed before the run.
C7_Witness ==
    /\ Finished
    /\ error = "none"
    /\ azs_before.exists
    /\ Returned("search", "azs_memory")

\* The cells that call search_memory_examples, and their questions.
ExampleQuestions ==
    [c \in {"24764c48", "1a09d0ca"} |->
        IF c = "24764c48" THEN Questions_24764c48 ELSE Questions_1a09d0ca]

QuestionLines == { i \in 1..Len(output) : output[i].tag = "Question" }

SearchesInCell(cell) ==
    { j \in Events : history[j].ev = "issue" /\ Program[history[j].stmt].cell = cell }

\* C8: the output of search_memory_examples is, for the questions in list
\* order, the question followed by at most one Answer/Score pair; one search
\* with top=1 is issued per question, after the question is printed; and a
\* question is printed only when the result stream before it is read to
\* its end.
C8_QuestionByQuestion ==
    OutputCell \in DOMAIN ExampleQuestions =>
        LET qs == ExampleQuestions[OutputCell]
            n  == Cardinality(QuestionLines)
            s  == Cardinality(SearchesInCell(OutputCell))
        IN  /\ n <= Len(qs)
            /\ \A i \in 1..Len(output) :
                  /\ output[i].tag \in {"Question", "Answer", "Score"}
                  /\ output[i].tag = "Question" =>
                        /\ output[i].text =
                              qs[Cardinality({ k \in QuestionLines : k <= i })]
                        /\ (i = Len(output) /\ s < n) => results = << >>
                  /\ output[i].tag = "Answer" =>
                        /\ i > 1 /\ output[i-1].tag = "Question"
                        /\ i < Len(output) /\ output[i+1].tag = "Score"
                  /\ output[i].tag = "Score" =>
                        i > 1 /\ output[i-1].tag = "Answer"
            /\ s \in {n - 1, n}
            /\ n > 0 => output[1].tag = "Question"
            /\ \A j \in SearchesInCell(OutputCell) :
                  Program[history[j].stmt].top = 1

\* The three questions put to the Azure collection are printed, each with
\* its answer and score.
C8_Witness ==
    /\ OutputCell = "1a09d0ca"
    /\ Len(output) = 9
    /\ output[7].text = Questions_1a09d0ca[3]
    /\ output[8].tag = "Answer"

\* C9: a SimpleModel constructed without an embedding has its text as its
\* embedding; one constructed with an embedding, a list or a string, has
\* that embedding; text and id are the constructor's.
C9_SimpleModelEmbedding ==
    (obj # << >> /\ ctor_args \in CtorArgs) =>
        /\ ctor_args.embedding = None => obj[1].embedding = Str(ctor_args.text)
        /\ ctor_args.embedding # None => obj[1].embedding = ctor_args.embedding
        /\ obj[1].text = ctor_args.text
        /\ obj[1].id = IF ctor_args.id.given THEN ctor_args.id.val ELSE generated

\* A SimpleModel built from a text alone.
C9_Witness ==
    /\ obj # << >>
    /\ ctor_args \in CtorArgs
    /\ ctor_args.embedding = None
    /\ ctor_args.text = "text"
    /\ obj[1].embedding = Str("text")

\* C10: the upsert of github_files into the Azure AI Search collection
\* returns the list of keys the upsert into the in-memory collection
\* returned, and these are the keys the records were constructed with.
C10_SameKeys ==
    Returned("upsert", "azs_memory") =>
        /\ upsert_result["azs_memory"] = upsert_result["github_memory"]
        /\ Len(upsert_result["azs_memory"]) = Len(GitHubFileArgs)
        /\ \A i \in 1..Len(GitHubFileArgs) :
              /\ github_files[i].key = upsert_result["azs_memory"][i]
              /\ \E r \in store["github_memory"].recs :
                    r.key = upsert_result["azs_memory"][i] /\ r.url = GitHubFileArgs[i].url

\* Both upserts of github_files have returned their three keys.
C10_Witness ==
    /\ Returned("upsert", "github_memory")
    /\ Returned("upsert", "azs_memory")
    /\ Len(upsert_result["azs_memory"]) = 3

\* The list a collection's upsert was given.
UpsertedList(c) == IF c = "collection" THEN records ELSE github_files

\* C11: the upsert of the n records of a list, built without explicit keys,
\* returns n keys, the i-th the key of the i-th record, no two equal, and
\* the collection then holds exactly one record for each of them.
C11_OneKeyPerRecord ==
    \A c \in Collections :
        (Returned("upsert", c) /\ (c = "azs_memory" => ~CleanupStarted)) =>
            LET list == UpsertedList(c)
                keys == upsert_result[c]
            IN  /\ Len(keys) = Len(list)
                /\ Len(keys) = 3
                /\ \A i \in 1..Len(keys) : keys[i] = KeyOf(list[i])
                /\ \A i, j \in 1..Len(keys) : i # j => keys[i] # keys[j]
                /\ Cardinality(store[c].recs) = Len(keys)
                /\ \A i \in 1..Len(keys) :
                      Cardinality({ r \in store[c].recs : KeyOf(r) = keys[i] }) = 1
                /\ \A i \in 1..Len(keys) : list[i] \in store[c].recs

\* The three records of the first cell are stored under three keys.
C11_Witness ==
    /\ Returned("upsert", "collection")
    /\ Len(upsert_result["collection"]) = 3
    /\ Cardinality(store["collection"].recs) = 3

\* A search has just returned: its result stream is unread.
SearchJustReturned ==
    /\ history # << >>
    /\ history[Len(history)].ev = "return"
    /\ Program[history[Len(history)].stmt].op = "search"

LastCall == Program[history[Len(history)].stmt]

\* C12: a search with top=k on a collection of n records yields min(k, n)
\* results, no record twice, all of them stored records; the top=5 search
\* of cell 143911c3 yields exactly the three records of github_files.
C12_MinTopResults ==
    SearchJustReturned =>
        LET recs == store[LastCall.coll].recs
            n    == Cardinality(recs)
        IN  /\ Len(results) = IF LastCall.top < n THEN LastCall.top ELSE n
            /\ \A i, j \in 1..Len(results) :
                  i # j => results[i].record # results[j].record
            /\ \A i \in 1..Len(results) : results[i].record \in recs
            /\ LastCall.cell = "143911c3" =>
                  /\ Len(results) = 3
                  /\ { results[i].record : i \in 1..3 } = Range(github_files)

\* The search of cell 143911c3 has returned its three results.
C12_Witness ==
    /\ SearchJustReturned
    /\ LastCall.cell = "143911c3"
    /\ LastCall.top = 5
    /\ Len(results) = 3

\* C13: the results of a search on an in-memory collection come in
\* non-decreasing score (the cosine distance), and no stored record left
\* out is closer than a result; with top=1 the one result is a closest
\* stored record.
C13_ClosestFirst ==
    (SearchJustReturned /\ LastCall.coll \in {"collection", "github_memory"}) =>
        LET recs == store[LastCall.coll].recs
        IN  /\ DOMAIN scores = recs
            /\ \A i \in 1..Len(results) :
                  results[i].score = scores[results[i].record]
            /\ \A i, j \in 1..Len(results) :
                  i < j => results[i].score <= results[j].score
            /\ \A y \in recs :
                  (\A i \in 1..Len(results) : results[i].record # y)
                      => \A i \in 1..Len(results) : results[i].score <= scores[y]
            /\ LastCall.top = 1 =>
                  /\ Len(results) = 1
                  /\ \A y \in recs : results[1].score <= scores[y]

\* The top=5 search of the GitHub files returned three records, the first
\* strictly closer than the last.
C13_Witness ==
    /\ SearchJustReturned
    /\ LastCall.coll = "github_memory"
    /\ Len(results) = 3
    /\ results[1].score < results[3].score

\* C15: a GitHubFile constructed without an embedding has as its embedding
\* its url, one space, then its text; one constructed with an embedding
\* keeps that embedding; url, text and key are the constructor's.
C15_GitHubFileEmbedding ==
    (obj # << >> /\ ctor_args \in GitHubFileCtorArgs) =>
        /\ ctor_args.embedding = None =>
              obj[1].embedding = Str(ctor_args.url \o " " \o ctor_args.text)
        /\ ( /\ ctor_args.embedding = None
             /\ ctor_args.url = "https://github.com/microsoft/semantic-kernel"
             /\ ctor_args.text = "text" ) =>
              obj[1].embedding =
                  Str("https://github.com/microsoft/semantic-kernel text")
        /\ (ctor_args.embedding = None /\ ctor_args.url = ""
                                       /\ ctor_args.text = "") =>
              obj[1].embedding = Str(" ")
        /\ ctor_args.embedding # None => obj[1].embedding = ctor_args.embedding
        /\ obj[1].url = ctor_args.url
        /\ obj[1].text = ctor_args.text
        /\ obj[1].key = IF ctor_args.key.given THEN ctor_args.key.val
                                               ELSE generated

\* A GitHubFile built from a url and a text alone.
C15_Witness ==
    /\ obj # << >>
    /\ ctor_args \in GitHubFileCtorArgs
    /\ ctor_args.embedding = None
    /\ ~ctor_args.key.given
    /\ ctor_args.text = "text"
    /\ obj[1].embedding =
           Str("https://github.com/microsoft/semantic-kernel text")

\* C16: with GLOBAL_LLM_SERVICE set to a value whose lowercase form is the
\* value of no member of Service, the selection raises ValueError at the
\* first statement, selectedService stays unassigned, nothing is printed,
\* and no service is ever added to the kernel.
C16_InvalidSettingRaises ==
    ( /\ global_llm_service.set
      /\ \A m \in ServiceMembers :
            ServiceValue[m] # lower(global_llm_service.val)
      /\ Executed("select") ) =>
        /\ error = "ValueError"
        /\ failedAt = 1
        /\ pc = 1
        /\ selectedService = "unset"
        /\ selectedService # "AzureOpenAI"
        /\ output = << >>
        /\ ~Executed("configure")
        /\ kernel_services = { }
        /\ embedding_gen = "undefined"

\* The setting is Ollama and the selection has run.
C16_Witness ==
    /\ global_llm_service = Setting(<< "O","l","l","a","m","a" >>)
    /\ Executed("select")
    /\ error = "ValueError"

(***************************************************************************)
(* The chat: a third specification, in which the chat is set up (the state *)
(* after cell e3875a34) and a user calls chat(user_input) with what the    *)
(* welcome text invites: a question, or 'exit'.  Here pc is the statement  *)
(* of chat's body being run, 0 between calls, and history has one event    *)
(* per call of chat.                                                       *)
(***************************************************************************)
ChatInputs ==
    { "exit", "What is my budget for 2024?", "talk to me about my finances" }

InitChat ==
    /\ global_llm_service = NoSetting
    /\ azs_before = AbsentCollection
    /\ user_input = ""
    /\ selectedService = SelectService(NoSetting)
    /\ kernel_services = ConfiguredServices(selectedService)
    /\ kernel_functions = {"memory.recall", "chat.chat_with_memory"}
    /\ embedding_gen = ConfiguredEmbeddingGen(selectedService)
    /\ classes = {"SimpleModel"}
    /\ generated = Len(RecordTexts)
    /\ records = MakeRecords(0)
    /\ github_files = << >>
    /\ store = [c \in Collections |->
                  IF c = "collection" THEN upsert(EmptyCollection, records)
                                      ELSE AbsentCollection]
    /\ upsert_result = [c \in Collections |->
                  IF c = "collection" THEN upsert_keys(records) ELSE << >>]
    /\ results = << >>
    /\ answer = ""
    /\ scores = << >>
    /\ requests = << >>
    /\ output = << Line("text", Cell_e3875a34[1].arg, 0),
                   Line("text", Cell_e3875a34[3].arg, 0),
                   Line("text", Cell_e3875a34[4].arg, 0) >>
    /\ pc = 0
    /\ phase = "ready"
    /\ outstanding = { }
    /\ error = "none"
    /\ failedAt = 0
    /\ history = << >>
    /\ ctor_args = NoArgs
    /\ obj = << >>

\* The body of the call of chat being run.
ChatBody == chat("chat", user_input)

InChat(kind) ==
    /\ error = "none"
    /\ pc \in 1..Len(ChatBody)
    /\ phase = "ready"
    /\ ChatBody[pc].kind = kind

\* await chat(<what the user typed>)
ChatCall ==
    /\ error = "none"
    /\ pc = 0
    /\ Len(history) < MaxTurns
    /\ \E typed \in ChatInputs : user_input' = typed
    /\ pc' = 1
    /\ output' = << >>
    /\ history' = Append(history, Event("chat", Len(history) + 1))
    /\ UNCHANGED << global_llm_service, azs_before, kernelVars, dataVars,
                    sdkVars, phase, outstanding, error, failedAt, ctorVars >>

\* print(f"User: {user_input}") and print(f"ChatBot:> {answer}")
ChatPrint ==
    /\ InChat("print")
    /\ output' = Append(output,
                   Line(ChatBody[pc].op,
                        IF ChatBody[pc].op = "ChatBot" THEN answer
                                                       ELSE ChatBody[pc].arg,
                        0))
    /\ pc' = IF pc = Len(ChatBody) THEN 0 ELSE pc + 1
    /\ UNCHANGED << envVars, kernelVars, dataVars, sdkVars, phase, outstanding,
                    error, failedAt, history, ctorVars >>

\* answer = await kernel.invoke(chat_func, request=user_input): issued
ChatInvoke ==
    /\ InChat("call")
    /\ phase' = "waiting"
    /\ outstanding' = {pc}
    /\ UNCHANGED << envVars, kernelVars, dataVars, sdkVars, output, pc, error,
                    failedAt, history, ctorVars >>

\* kernel.invoke returns: the request went to the model and was answered.
ChatInvokeReturn ==
    /\ error = "none"
    /\ phase = "waiting"
    /\ CanSucceed(ChatBody[pc])
    /\ answer' \in Answers
    /\ requests' = Append(requests, ChatBody[pc].arg)
    /\ outstanding' = { }
    /\ phase' = "ready"
    /\ pc' = pc + 1
    /\ UNCHANGED << store, upsert_result, results, scores >>
    /\ UNCHANGED << envVars, kernelVars, dataVars, output, error, failedAt,
                    history, ctorVars >>

\* kernel.invoke raises: chat has no handler.
ChatInvokeRaise ==
    /\ error = "none"
    /\ phase = "waiting"
    /\ outstanding' = { }
    /\ Raise("SDKError")
    /\ UNCHANGED << envVars, kernelVars, dataVars, sdkVars, output, history,
                    ctorVars >>

NextChat ==
    \/ ChatCall
    \/ ChatPrint
    \/ ChatInvoke
    \/ ChatInvokeReturn
    \/ ChatInvokeRaise

SpecChat == InitChat /\ [][NextChat]_vars

\* C14: typing 'exit' exits: for the input 'exit' the chat ends without a
\* call of the model, and no request 'exit' is ever sent to the model.
C14_ExitSendsNoRequest ==
    /\ user_input = "exit" => outstanding = { }
    /\ \A i \in 1..Len(requests) : requests[i] # "exit"

=============================================================================
